---- MODULE Spec2Model ----
(***************************************************************************)
(* Verification model of the relay transaction validator                   *)
(* (relay-general/src/store/transactions.rs).                              *)
(*                                                                         *)
(* One TransactionsProcessor instance is constructed (Init) and is then    *)
(* handed events (ProcessEvent).  An Option<T> is a sequence of length at  *)
(* most one: None is <<>>, Some(v) is <<v>>.  Timestamps are whole seconds *)
(* in the representable range TsMin..TsMax, durations are integers.        *)
(***************************************************************************)
EXTENDS Integers, Sequences, FiniteSets, TLC

\* ------------------------------------------------------------------ bounds
\* Largest representable timestamp (stand-in for chrono's MAX_DATETIME).
TsMax == 1
\* Longest span collection handed to the validator.
MaxSpans == 2

\* ------------------------------------------------------- Option<T> helpers
None == <<>>
Some(v) == <<v>>
unwrap(o) == o[1]
unwrap_or(o, default) == IF o = None THEN default ELSE o[1]
\* Mutant of get_or_insert_with: the value is written unconditionally.
get_or_insert_with_overwrite(o, v) == Some(v)

\* Option::get_or_insert_with: keeps a present value, fills an absent one.
get_or_insert_with(o, v) == IF o = None THEN Some(v) ELSE o

\* -------------------------------------------------------------- timestamps
TsMin == 0 - TsMax
Ts == TsMin..TsMax
OptTs == {None} \cup {Some(t) : t \in Ts}

\* DateTime::signed_duration_since: exact, a Duration holds every difference
\* of two representable instants.
signed_duration_since(a, b) == a - b

\* DateTime::checked_sub_signed: None when the result is not representable.
checked_sub_signed(ts, d) == IF (ts - d) \in Ts THEN Some(ts - d) ELSE None

\* ------------------------------------------------------------------ results
Ok == <<"Ok">>
InvalidTransaction(reason) == <<"InvalidTransaction", reason>>
\* Option::expect on None: the thread panics.
Panic == <<"panic">>

\* ------------------------------------------------------------- event shape
EventType_Transaction == "transaction"
EventTypes == {None, Some(EventType_Transaction), Some("error")}
Names == {None, Some(""), Some("/")}
OptId == {None, Some("id")}
OptOp == {None, Some("op")}

\* ContextInner: the trace variant carries trace_id, span_id and op; every
\* other variant is opaque to the validator.
TraceContexts == [variant : {"trace"}, trace_id : OptId, span_id : OptId, op : OptOp]
OtherContext == [variant |-> "other", trace_id |-> None, span_id |-> None, op |-> None]
\* Annotated<ContextInner>: null or a context.
AnnContexts == {None} \cup {Some(c) : c \in TraceContexts \cup {OtherContext}}
\* Contexts: a mapping from key to Annotated<ContextInner>.
ContextMaps == UNION {[K -> AnnContexts] : K \in SUBSET {"trace"}}
OptContexts == {None} \cup {Some(m) : m \in ContextMaps}

Spans == [timestamp : OptTs, start_timestamp : OptTs, op : OptOp, span_id : OptId, trace_id : OptId]

\* Annotated<Span>: a null slot or a span.
AnnSpans == {None} \cup {Some(s) : s \in Spans}

\* Event: the fields the validator reads or writes.
EventOf(ty, name, ts, start, ctx, spans) ==
    [ty |-> ty, transaction |-> name, timestamp |-> ts, start_timestamp |-> start,
     contexts |-> ctx, spans |-> spans]

\* ------------------------------------------------- inputs handed to the code
RECURSIVE SeqsUpTo(_, _)
\* All sequences over S of length 0..n.
SeqsUpTo(S, n) ==
    IF n = 0 THEN {<<>>}
    ELSE LET shorter == SeqsUpTo(S, n - 1)
         IN shorter \cup {Append(q, x) : q \in {r \in shorter : Len(r) = n - 1}, x \in S}

\* The span of new_test_event, with and without op.
TestSpan(op) == [timestamp |-> Some(TsMax), start_timestamp |-> Some(0), op |-> op,
                 span_id |-> Some("id"), trace_id |-> Some("id")]
\* Slots used in span collections of two and more elements: null, valid spans
\* with and without op, a span without timestamp, a span without trace_id.
PairSlots == {None, Some(TestSpan(None)), Some(TestSpan(Some("op"))),
              Some([TestSpan(None) EXCEPT !.timestamp = None]),
              Some([TestSpan(None) EXCEPT !.trace_id = None])}
\* Span collections: absent, empty, every single slot, and longer
\* collections over PairSlots.
SpanLists == {None} \cup {Some(<<a>>) : a \in AnnSpans}
                    \cup {Some(q) : q \in SeqsUpTo(PairSlots, MaxSpans)}
\* Span collections paired with arbitrary event-level fields.
SimpleSpanLists == {None, Some(<<>>), Some(<<None>>), Some(<<Some(TestSpan(None))>>)}

\* Events with arbitrary event-level fields.
TopEvents == {EventOf(ty, name, ts, start, ctx, spans) :
                ty \in EventTypes, name \in Names, ts \in OptTs, start \in OptTs,
                ctx \in OptContexts, spans \in SimpleSpanLists}
\* Transaction events that pass every event-level check but the span-list
\* check, with arbitrary span collections.
WalkEvents == {EventOf(Some(EventType_Transaction), Some("/"), Some(ts), Some(start),
                       Some([k \in {"trace"} |-> Some(c)]), spans) :
                ts \in Ts, start \in Ts,
                c \in {t \in TraceContexts : t.trace_id # None /\ t.span_id # None},
                spans \in SpanLists}
Events == TopEvents \cup {e \in WalkEvents : e.start_timestamp[1] <= e.timestamp[1]}

\* Most events one processor is handed.
MaxEvents == 2
\* The events handed to a reused processor: transactions and error events,
\* with ordered timestamps of different ends or without end timestamp, with
\* and without a trace context, with a valid span or with a valid span
\* followed by one without trace_id.
ReuseEvents ==
    {EventOf(Some(ty), Some("/"), t[1], t[2], ctx, Some(spans)) :
        ty \in {EventType_Transaction, "error"},
        t \in {<<Some(TsMax), Some(0)>>, <<Some(0), Some(TsMin)>>, <<None, Some(0)>>},
        ctx \in {None, Some([k \in {"trace"} |->
                    Some([variant |-> "trace", trace_id |-> Some("id"),
                          span_id |-> Some("id"), op |-> None])])},
        spans \in {<<Some(TestSpan(None))>>,
                   <<Some(TestSpan(None)), Some([TestSpan(None) EXCEPT !.trace_id = None])>>}}

\* ------------------------------------------------- TransactionsProcessor
\* TransactionsProcessor::new: now is the wall clock at construction.
new(sent_at, now) == [sent_at |-> sent_at, client_clock_drift |-> None, now |-> now]

\* One entry of the record of hook invocations: the hook, the index of the
\* span it ran in (None at event level) and the field it was handed ("" for
\* the node itself).
Call(hook, span, field) == [hook |-> hook, span |-> span, field |-> field]

\* Mutant of process_timestamp: the drift is added.
process_timestamp_add(self, timestamp) ==
    IF self.client_clock_drift = None
    THEN [timestamp |-> timestamp, result |-> Panic]
    ELSE LET drift == unwrap(self.client_clock_drift)
         IN [timestamp |-> unwrap_or(checked_sub_signed(timestamp, 0 - drift), timestamp),
             result |-> Ok]

\* Mutant of process_timestamp: an unrepresentable result is an error.
process_timestamp_reject_overflow(self, timestamp) ==
    IF self.client_clock_drift = None
    THEN [timestamp |-> timestamp, result |-> Panic]
    ELSE LET shifted == checked_sub_signed(timestamp, unwrap(self.client_clock_drift))
         IN IF shifted = None
            THEN [timestamp |-> timestamp,
                  result |-> InvalidTransaction("timestamp out of range")]
            ELSE [timestamp |-> unwrap(shifted), result |-> Ok]

\* process_timestamp: subtract the drift, keep the value when the result is
\* not representable; expect() panics when no drift is set.
process_timestamp(self, timestamp) ==
    IF self.client_clock_drift = None
    THEN [timestamp |-> timestamp, result |-> Panic]
    ELSE LET drift == unwrap(self.client_clock_drift)
         IN [timestamp |-> unwrap_or(checked_sub_signed(timestamp, drift), timestamp),
             result |-> Ok]

\* The walk reaching an Annotated<Timestamp>: the hook runs only on a present
\* value; w is the walk so far (result and calls).
visit_timestamp(self, w, ann, span, field) ==
    IF w.result # Ok \/ ann = None
    THEN [value |-> ann, result |-> w.result, calls |-> w.calls]
    ELSE LET r == process_timestamp(self, unwrap(ann))
         IN [value |-> Some(r.timestamp), result |-> r.result,
             calls |-> Append(w.calls, Call("process_timestamp", span, field))]

\* Span::process_child_values: the span's timestamp, then its start_timestamp.
span_process_child_values(self, w, span, idx) ==
    LET t1 == visit_timestamp(self, w, span.timestamp, Some(idx), "timestamp")
        t2 == visit_timestamp(self, t1, span.start_timestamp, Some(idx), "start_timestamp")
    IN [span |-> [span EXCEPT !.timestamp = t1.value, !.start_timestamp = t2.value],
        result |-> t2.result, calls |-> t2.calls]

\* Mutant of span_rejection: the identifiers are looked at before the timestamps.
span_rejection_ids_first(span) ==
    IF span.trace_id = None THEN Some("span is missing trace_id")
    ELSE IF span.span_id = None THEN Some("span is missing span_id")
    ELSE IF span.timestamp = None THEN Some("span is missing timestamp")
    ELSE IF span.start_timestamp = None THEN Some("span is missing start_timestamp")
    ELSE IF unwrap(span.timestamp) < unwrap(span.start_timestamp)
         THEN Some("end timestamp in span is smaller than start timestamp")
    ELSE None

\* The reason process_span rejects the span with, None when it passes.
span_rejection(span) ==
    IF span.timestamp = None THEN Some("span is missing timestamp")
    ELSE IF span.start_timestamp = None THEN Some("span is missing start_timestamp")
    ELSE IF unwrap(span.timestamp) < unwrap(span.start_timestamp)
         THEN Some("end timestamp in span is smaller than start timestamp")
    ELSE IF span.trace_id = None THEN Some("span is missing trace_id")
    ELSE IF span.span_id = None THEN Some("span is missing span_id")
    ELSE None

\* process_span on the span at index idx.
process_span(self, w, span, idx) ==
    LET entered == [w EXCEPT !.calls = Append(w.calls, Call("process_span", Some(idx), ""))]
        reason == span_rejection(span)
    IN IF reason # None
       THEN [span |-> span, result |-> InvalidTransaction(unwrap(reason)),
             calls |-> entered.calls]
       ELSE span_process_child_values(self, entered,
                [span EXCEPT !.op = get_or_insert_with(span.op, "default")], idx)

RECURSIVE visit_spans(_, _, _, _)
\* The walk over the span array from index idx (0-based) on: each present
\* element is handed to process_span, the first rejection ends the walk.
visit_spans(self, w, items, idx) ==
    IF idx >= Len(items) \/ w.result # Ok
    THEN [items |-> items, result |-> w.result, calls |-> w.calls]
    ELSE IF items[idx + 1] = None
    THEN visit_spans(self, w, items, idx + 1)
    ELSE LET r == process_span(self, w, unwrap(items[idx + 1]), idx)
         IN visit_spans(self, [result |-> r.result, calls |-> r.calls],
                        [items EXCEPT ![idx + 1] = Some(r.span)], idx + 1)

\* Event::process_child_values: timestamp, start_timestamp, then the spans.
event_process_child_values(self, event) ==
    LET w0 == [result |-> Ok, calls |-> <<Call("process_child_values", None, "")>>]
        t1 == visit_timestamp(self, w0, event.timestamp, None, "timestamp")
        t2 == visit_timestamp(self, t1, event.start_timestamp, None, "start_timestamp")
        sp == IF event.spans = None
              THEN [items |-> <<>>, result |-> t2.result, calls |-> t2.calls]
              ELSE visit_spans(self, t2, unwrap(event.spans), 0)
    IN [event |-> [event EXCEPT !.timestamp = t1.value, !.start_timestamp = t2.value,
                                !.spans = IF event.spans = None THEN None ELSE Some(sp.items)],
        result |-> sp.result, calls |-> sp.calls]

\* Mutant of default_transaction_name: only an absent name is replaced.
default_transaction_name_absent_only(event) ==
    IF event.transaction = None
    THEN [event EXCEPT !.transaction = Some("<unlabeled transaction>")]
    ELSE event

\* The name default: an absent or empty transaction name becomes the placeholder.
default_transaction_name(event) ==
    IF event.transaction = None \/ unwrap(event.transaction) = ""
    THEN [event EXCEPT !.transaction = Some("<unlabeled transaction>")]
    ELSE event

\* Mutant of timestamp_rejection: equal timestamps are rejected as well.
timestamp_rejection_strict(event) ==
    IF event.timestamp = None
    THEN Some("timestamp hard-required for transaction events")
    ELSE IF event.start_timestamp = None
    THEN Some("start_timestamp hard-required for transaction events")
    ELSE IF unwrap(event.timestamp) <= unwrap(event.start_timestamp)
    THEN Some("end timestamp is smaller than start timestamp")
    ELSE None

\* Mutant of timestamp_rejection: the (None, _) arm is matched first.
timestamp_rejection_start_first(event) ==
    IF event.start_timestamp = None
    THEN Some("start_timestamp hard-required for transaction events")
    ELSE IF event.timestamp = None
    THEN Some("timestamp hard-required for transaction events")
    ELSE IF unwrap(event.timestamp) < unwrap(event.start_timestamp)
    THEN Some("end timestamp is smaller than start timestamp")
    ELSE None

\* The match on (start_timestamp, timestamp): the rejection reason, None
\* when both are present and ordered.
timestamp_rejection(event) ==
    IF event.timestamp = None
    THEN Some("timestamp hard-required for transaction events")
    ELSE IF event.start_timestamp = None
    THEN Some("start_timestamp hard-required for transaction events")
    ELSE IF unwrap(event.timestamp) < unwrap(event.start_timestamp)
    THEN Some("end timestamp is smaller than start timestamp")
    ELSE None

\* Mutant of clock_drift: without sent_at the start timestamp is taken.
clock_drift_from_start(self, event) ==
    signed_duration_since(unwrap_or(self.sent_at, unwrap(event.start_timestamp)), self.now)

\* The drift stored when the timestamps pass: sent_at (or the end timestamp)
\* minus now.
clock_drift(self, event) ==
    signed_duration_since(unwrap_or(self.sent_at, unwrap(event.timestamp)), self.now)

\* Mutant of trace_context_rejection: the variant of the context is not looked at.
trace_context_rejection_any_variant(event) ==
    IF event.contexts = None
    THEN Some("trace context hard-required for transaction events")
    ELSE LET contexts == unwrap(event.contexts)
         IN IF "trace" \notin DOMAIN contexts \/ contexts["trace"] = None
            THEN Some("trace context hard-required for transaction events")
            ELSE LET trace_context == unwrap(contexts["trace"])
                 IN IF trace_context.trace_id = None
                    THEN Some("trace context is missing trace_id")
                    ELSE IF trace_context.span_id = None
                    THEN Some("trace context is missing span_id")
                    ELSE None

\* Mutant of trace_context_rejection: span_id is looked at before trace_id.
trace_context_rejection_span_id_first(event) ==
    IF event.contexts = None
    THEN Some("trace context hard-required for transaction events")
    ELSE LET contexts == unwrap(event.contexts)
         IN IF "trace" \notin DOMAIN contexts \/ contexts["trace"] = None
            THEN Some("trace context hard-required for transaction events")
            ELSE LET trace_context == unwrap(contexts["trace"])
                 IN IF trace_context.variant # "trace"
                    THEN Some("context at event.contexts.trace must be of type trace.")
                    ELSE IF trace_context.span_id = None
                    THEN Some("trace context is missing span_id")
                    ELSE IF trace_context.trace_id = None
                    THEN Some("trace context is missing trace_id")
                    ELSE None

\* The trace-context requirement: the rejection reason, None when the
\* contexts hold a trace context with trace_id and span_id.
trace_context_rejection(event) ==
    IF event.contexts = None
    THEN Some("trace context hard-required for transaction events")
    ELSE LET contexts == unwrap(event.contexts)
         IN IF "trace" \notin DOMAIN contexts \/ contexts["trace"] = None
            THEN Some("trace context hard-required for transaction events")
            ELSE LET trace_context == unwrap(contexts["trace"])
                 IN IF trace_context.variant # "trace"
                    THEN Some("context at event.contexts.trace must be of type trace.")
                    ELSE IF trace_context.trace_id = None
                    THEN Some("trace context is missing trace_id")
                    ELSE IF trace_context.span_id = None
                    THEN Some("trace context is missing span_id")
                    ELSE None

\* trace_context.op.get_or_insert_with("default"), in place.
default_trace_op(event) ==
    LET contexts == unwrap(event.contexts)
        trace_context == unwrap(contexts["trace"])
    IN [event EXCEPT !.contexts = Some([contexts EXCEPT !["trace"] =
            Some([trace_context EXCEPT !.op = get_or_insert_with(trace_context.op, "default")])])]

\* Mutant of has_null_span: only the first element is looked at.
has_null_span_first_only(event) ==
    /\ event.spans # None
    /\ Len(unwrap(event.spans)) > 0
    /\ unwrap(event.spans)[1] = None

\* The span-list check: a present collection with a null element.
has_null_span(event) ==
    /\ event.spans # None
    /\ \E i \in 1..Len(unwrap(event.spans)) : unwrap(event.spans)[i] = None

\* Mutant of is_transaction: everything but an error event is validated.
is_transaction_unless_error(event) == event.ty # Some("error")

\* The type guard: only events declared as transactions are validated.
is_transaction(event) == event.ty = Some(EventType_Transaction)

\* What a return of process_event leaves behind.
Outcome(self, event, result, calls) ==
    [self |-> self, event |-> event, result |-> result, calls |-> calls]

\* Mutant of process_event: the trace context is checked before the timestamps.
process_event_trace_first(self, event) ==
    IF ~is_transaction(event) THEN Outcome(self, event, Ok, <<>>)
    ELSE
    LET named == default_transaction_name(event)
        ctx_reason == trace_context_rejection(named)
    IN IF ctx_reason # None
       THEN Outcome(self, named, InvalidTransaction(unwrap(ctx_reason)), <<>>)
       ELSE
       LET traced == default_trace_op(named)
           ts_reason == timestamp_rejection(traced)
       IN IF ts_reason # None
          THEN Outcome(self, traced, InvalidTransaction(unwrap(ts_reason)), <<>>)
          ELSE
          LET self1 == [self EXCEPT !.client_clock_drift = Some(clock_drift(self, traced))]
          IN IF has_null_span(traced)
             THEN Outcome(self1, traced,
                          InvalidTransaction("spans must be valid in transaction event"), <<>>)
             ELSE LET walk == event_process_child_values(self1, traced)
                  IN Outcome(self1, walk.event, walk.result, walk.calls)

\* Mutant of process_event: the drift is stored when the walk has returned.
process_event_drift_late(self, event) ==
    IF ~is_transaction(event) THEN Outcome(self, event, Ok, <<>>)
    ELSE
    LET named == default_transaction_name(event)
        ts_reason == timestamp_rejection(named)
    IN IF ts_reason # None
       THEN Outcome(self, named, InvalidTransaction(unwrap(ts_reason)), <<>>)
       ELSE
       LET self1 == [self EXCEPT !.client_clock_drift = Some(clock_drift(self, named))]
           ctx_reason == trace_context_rejection(named)
       IN IF ctx_reason # None
          THEN Outcome(self1, named, InvalidTransaction(unwrap(ctx_reason)), <<>>)
          ELSE
          LET traced == default_trace_op(named)
          IN IF has_null_span(traced)
             THEN Outcome(self1, traced,
                          InvalidTransaction("spans must be valid in transaction event"), <<>>)
             ELSE LET walk == event_process_child_values(self, traced)
                  IN Outcome(self1, walk.event, walk.result, walk.calls)

\* Mutant of process_event: the op is defaulted before the identifiers are checked.
process_event_op_first(self, event) ==
    IF ~is_transaction(event) THEN Outcome(self, event, Ok, <<>>)
    ELSE
    LET named == default_transaction_name(event)
        ts_reason == timestamp_rejection(named)
    IN IF ts_reason # None
       THEN Outcome(self, named, InvalidTransaction(unwrap(ts_reason)), <<>>)
       ELSE
       LET self1 == [self EXCEPT !.client_clock_drift = Some(clock_drift(self, named))]
           ctx_reason == trace_context_rejection(named)
       IN IF ctx_reason # None
          THEN Outcome(self1, IF unwrap(ctx_reason) \in {"trace context is missing trace_id",
                                                       "trace context is missing span_id"}
                       THEN default_trace_op(named) ELSE named, InvalidTransaction(unwrap(ctx_reason)), <<>>)
          ELSE
          LET traced == default_trace_op(named)
          IN IF has_null_span(traced)
             THEN Outcome(self1, traced,
                          InvalidTransaction("spans must be valid in transaction event"), <<>>)
             ELSE LET walk == event_process_child_values(self1, traced)
                  IN Outcome(self1, walk.event, walk.result, walk.calls)

\* Mutant of process_event: the spans are walked before they are checked for null.
process_event_null_check_last(self, event) ==
    IF ~is_transaction(event) THEN Outcome(self, event, Ok, <<>>)
    ELSE
    LET named == default_transaction_name(event)
        ts_reason == timestamp_rejection(named)
    IN IF ts_reason # None
       THEN Outcome(self, named, InvalidTransaction(unwrap(ts_reason)), <<>>)
       ELSE
       LET self1 == [self EXCEPT !.client_clock_drift = Some(clock_drift(self, named))]
           ctx_reason == trace_context_rejection(named)
       IN IF ctx_reason # None
          THEN Outcome(self1, named, InvalidTransaction(unwrap(ctx_reason)), <<>>)
          ELSE
          LET traced == default_trace_op(named)
              walk == event_process_child_values(self1, traced)
          IN IF has_null_span(traced) /\ walk.result = Ok
             THEN Outcome(self1, walk.event,
                          InvalidTransaction("spans must be valid in transaction event"),
                          walk.calls)
             ELSE Outcome(self1, walk.event, walk.result, walk.calls)

\* Mutant of process_event: a drift already stored is kept.
process_event_keep_drift(self, event) ==
    IF ~is_transaction(event) THEN Outcome(self, event, Ok, <<>>)
    ELSE
    LET named == default_transaction_name(event)
        ts_reason == timestamp_rejection(named)
    IN IF ts_reason # None
       THEN Outcome(self, named, InvalidTransaction(unwrap(ts_reason)), <<>>)
       ELSE
       LET self1 == IF self.client_clock_drift # None THEN self
                ELSE [self EXCEPT !.client_clock_drift = Some(clock_drift(self, named))]
           ctx_reason == trace_context_rejection(named)
       IN IF ctx_reason # None
          THEN Outcome(self1, named, InvalidTransaction(unwrap(ctx_reason)), <<>>)
          ELSE
          LET traced == default_trace_op(named)
          IN IF has_null_span(traced)
             THEN Outcome(self1, traced,
                          InvalidTransaction("spans must be valid in transaction event"), <<>>)
             ELSE LET walk == event_process_child_values(self1, traced)
                  IN Outcome(self1, walk.event, walk.result, walk.calls)

\* process_event.
process_event(self, event) ==
    IF ~is_transaction(event) THEN Outcome(self, event, Ok, <<>>)
    ELSE
    LET named == default_transaction_name(event)
        ts_reason == timestamp_rejection(named)
    IN IF ts_reason # None
       THEN Outcome(self, named, InvalidTransaction(unwrap(ts_reason)), <<>>)
       ELSE
       LET self1 == [self EXCEPT !.client_clock_drift = Some(clock_drift(self, named))]
           ctx_reason == trace_context_rejection(named)
       IN IF ctx_reason # None
          THEN Outcome(self1, named, InvalidTransaction(unwrap(ctx_reason)), <<>>)
          ELSE
          LET traced == default_trace_op(named)
          IN IF has_null_span(traced)
             THEN Outcome(self1, traced,
                          InvalidTransaction("spans must be valid in transaction event"), <<>>)
             ELSE LET walk == event_process_child_values(self1, traced)
                  IN Outcome(self1, walk.event, walk.result, walk.calls)

\* ===================================================================
\* Conversion layer (src/processor.rs)
\* ===================================================================
\* Width of u64 and i64 (stand-in for 64).
IntBits == 3
\* Sub-second units per second (stand-in for 1,000,000 microseconds); a
\* float is a whole number of these units.
SubSec == 2
\* Longest array handed to the conversion layer.
MaxLen == 2

RECURSIVE Pow2(_)
Pow2(n) == IF n = 0 THEN 1 ELSE 2 * Pow2(n - 1)
U64s == 0..(Pow2(IntBits) - 1)
I64s == (0 - Pow2(IntBits - 1))..(Pow2(IntBits - 1) - 1)
\* `u as i64`: the same bits read as a signed integer.
as_i64(u) == IF u >= Pow2(IntBits - 1) THEN u - Pow2(IntBits) ELSE u

\* Meta: the errors recorded on a node, and its flags.
MetaOf(errors, flags) == [errors |-> errors, flags |-> flags]
EmptyMeta == MetaOf(<<>>, {})
\* Meta::add_error: appends.
add_error(meta, message) == [meta EXCEPT !.errors = Append(@, message)]
\* Meta::is_empty: neither errors nor flags.
Meta_is_empty(meta) == meta.errors = <<>> /\ meta.flags = {}

\* Annotated<T>(Option<T>, Meta).
Annotated(value, meta) == [value |-> value, meta |-> meta]

\* Value: <<variant>> for Null, <<variant, payload>> otherwise.  A float's
\* payload is its number of sub-second units.
Value_Null == <<"Null">>
Value_Bool(b) == <<"Bool", b>>
Value_U64(n) == <<"U64", n>>
Value_I64(n) == <<"I64", n>>
Value_F64(units) == <<"F64", units>>
Value_String(str) == <<"String", str>>
Value_Array(items) == <<"Array", items>>
Value_Object(items) == <<"Object", items>>
variant(value) == value[1]
payload(value) == value[2]

\* Mutant of primitive_from_value: a mismatched variant is dropped silently.
primitive_from_value_silent(meta_type, expectation, value) ==
    IF value.value # None /\ variant(unwrap(value.value)) = meta_type
    THEN Annotated(Some(payload(unwrap(value.value))), value.meta)
    ELSE Annotated(None, value.meta)

\* Mutant of primitive_from_value: an explicit null is a mismatch.
primitive_from_value_null_error(meta_type, expectation, value) ==
    IF value.value # None /\ variant(unwrap(value.value)) = meta_type
    THEN Annotated(Some(payload(unwrap(value.value))), value.meta)
    ELSE IF value.value = None
    THEN Annotated(None, value.meta)
    ELSE Annotated(None, add_error(value.meta, expectation))

\* primitive_meta_structure!: FromValue for a type held by one Value variant.
primitive_from_value(meta_type, expectation, value) ==
    IF value.value # None /\ variant(unwrap(value.value)) = meta_type
    THEN Annotated(Some(payload(unwrap(value.value))), value.meta)
    ELSE IF value.value = Some(Value_Null)
    THEN Annotated(None, value.meta)
    ELSE IF value.value = None
    THEN Annotated(None, value.meta)
    ELSE Annotated(None, add_error(value.meta, expectation))

\* primitive_meta_structure!: ToValue for a type held by one Value variant.
primitive_to_value(meta_type, value) ==
    IF value.value # None
    THEN Annotated(Some(<<meta_type, unwrap(value.value)>>), value.meta)
    ELSE Annotated(None, value.meta)

\* numeric_meta_structure! (u64, i64, f64): an exact variant match converts,
\* anything else is handled as for the other primitives.
numeric_from_value(meta_type, expectation, value) ==
    primitive_from_value(meta_type, expectation, value)
numeric_to_value(meta_type, value) == primitive_to_value(meta_type, value)

\* Strings that parse as a uuid.
UuidStrings == {"550e8400-e29b-41d4-a716-446655440000"}
\* primitive_meta_structure_through_string! (Uuid): a string that parses
\* converts, one that does not records the parse error.
uuid_from_value(value) ==
    IF value.value # None /\ variant(unwrap(value.value)) = "String"
    THEN IF payload(unwrap(value.value)) \in UuidStrings
         THEN Annotated(Some(payload(unwrap(value.value))), value.meta)
         ELSE Annotated(None, add_error(value.meta, "invalid uuid"))
    ELSE IF value.value = Some(Value_Null) \/ value.value = None
    THEN Annotated(None, value.meta)
    ELSE Annotated(None, add_error(value.meta, "expected a uuid"))
uuid_to_value(value) == primitive_to_value("String", value)

\* DateTime<Utc>: whole seconds since the epoch and the sub-second part.
DateTimeOf(secs, micros) == [timestamp |-> secs, subsec_micros |-> micros]
\* Utc.timestamp_opt: None outside the representable range.
timestamp_opt(secs, micros) ==
    IF secs \in Ts /\ micros \in 0..(SubSec - 1) THEN Some(DateTimeOf(secs, micros)) ELSE None
\* str::parse::<NaiveDateTime>.
parse_naive(str) ==
    IF str = "1970-01-01T00:00:01" THEN Some(DateTimeOf(1, 0)) ELSE None
\* str::parse::<DateTime<Utc>>, the timezone-aware form.
parse_utc(str) ==
    IF str = "1970-01-01T00:00:01Z" THEN Some(DateTimeOf(1, 0)) ELSE None
\* `f as i64`: truncation toward zero.
f64_as_i64(units) == IF units >= 0 THEN units \div SubSec ELSE 0 - ((0 - units) \div SubSec)
\* f64::fract: what truncation leaves, with the sign of the float.
fract(units) == units - f64_as_i64(units) * SubSec
\* `f as u32` of the scaled fraction: the value when it is not negative.  For
\* a negative one the cast saturates to 0 on toolchains that define it and is
\* undefined on older ones: any sub-second value, or one whose product with
\* 1000 overflows or is out of range (None).
f64_as_u32(micros) ==
    IF micros >= 0 THEN {Some(micros)} ELSE {Some(m) : m \in 0..(SubSec - 1)} \cup {None}

\* datetime_to_timestamp: seconds plus micros / 1,000,000, as a float.
datetime_to_timestamp(dt) == dt.timestamp * SubSec + dt.subsec_micros

\* FromValue for DateTime<Utc>: the set of outcomes, None for a panic.
datetime_from_value(value) ==
    IF value.value = None \/ value.value = Some(Value_Null)
    THEN {Some(Annotated(None, value.meta))}
    ELSE LET v == unwrap(value.value)
         IN IF variant(v) = "String"
            THEN LET parsed == IF parse_naive(payload(v)) # None
                               THEN parse_naive(payload(v)) ELSE parse_utc(payload(v))
                 IN IF parsed # None
                    THEN {Some(Annotated(parsed, value.meta))}
                    ELSE {Some(Annotated(None, add_error(value.meta, "invalid timestamp")))}
            ELSE IF variant(v) = "U64"
            THEN LET dt == timestamp_opt(as_i64(payload(v)), 0)
                 IN {IF dt = None THEN None ELSE Some(Annotated(dt, value.meta))}
            ELSE IF variant(v) = "I64"
            THEN LET dt == timestamp_opt(payload(v), 0)
                 IN {IF dt = None THEN None ELSE Some(Annotated(dt, value.meta))}
            ELSE IF variant(v) = "F64"
            THEN {IF micros = None \/ timestamp_opt(f64_as_i64(payload(v)), unwrap(micros)) = None
                  THEN None
                  ELSE Some(Annotated(timestamp_opt(f64_as_i64(payload(v)), unwrap(micros)),
                                      value.meta)) :
                  micros \in f64_as_u32(fract(payload(v)))}
            ELSE {Some(Annotated(None, add_error(value.meta, "expected timestamp")))}

\* ToValue for DateTime<Utc>.
datetime_to_value(value) ==
    IF value.value # None
    THEN Annotated(Some(Value_F64(datetime_to_timestamp(unwrap(value.value)))), value.meta)
    ELSE Annotated(None, value.meta)

\* The target types: <<"String">>, <<"bool">>, <<"u64">>, <<"i64">>, <<"f64">>,
\* <<"Uuid">>, <<"DateTime">>, <<"Value">>, <<"Vec", T>> for Vec<Annotated<T>>
\* and <<"Map", T>> for BTreeMap<String, Annotated<T>>.
\* Keys of mappings, in the order a BTreeMap iterates them.
KeyOrder == <<"a", "b">>
Keys == {KeyOrder[i] : i \in 1..Len(KeyOrder)}

RECURSIVE from_value(_, _)
RECURSIVE items_from_value(_, _)
\* items.into_iter().map(FromValue::from_value).collect(): the outcomes of
\* the element-wise parse, None when an element panics.
items_from_value(T, items) ==
    IF items = <<>> THEN {Some(<<>>)}
    ELSE {IF h = None \/ t = None THEN None ELSE Some(<<unwrap(h)>> \o unwrap(t)) :
            h \in from_value(T, Head(items)), t \in items_from_value(T, Tail(items))}

\* FromValue for Vec<Annotated<T>>.
vec_from_value(T, value) ==
    IF value.value # None /\ variant(unwrap(value.value)) = "Array"
    THEN {IF items = None THEN None ELSE Some(Annotated(Some(unwrap(items)), value.meta)) :
          items \in items_from_value(T, payload(unwrap(value.value)))}
    ELSE IF value.value = Some(Value_Null)
    THEN {Some(Annotated(None, value.meta))}
    ELSE IF value.value = None
    THEN {Some(Annotated(None, value.meta))}
    ELSE {Some(Annotated(None, add_error(value.meta, "expected array")))}

\* FromValue for BTreeMap<String, Annotated<T>>.
map_from_value(T, value) ==
    IF value.value # None /\ variant(unwrap(value.value)) = "Object"
    THEN LET items == payload(unwrap(value.value))
             outs == [k \in DOMAIN items |-> from_value(T, items[k])]
             picks == {f \in [DOMAIN items -> UNION {outs[k] : k \in DOMAIN items}] :
                         \A k \in DOMAIN items : f[k] \in outs[k]}
         IN {IF \E k \in DOMAIN items : f[k] = None THEN None
             ELSE Some(Annotated(Some([k \in DOMAIN items |-> unwrap(f[k])]), value.meta)) :
             f \in picks}
    ELSE IF value.value = Some(Value_Null)
    THEN {Some(Annotated(None, value.meta))}
    ELSE IF value.value = None
    THEN {Some(Annotated(None, value.meta))}
    ELSE {Some(Annotated(None, add_error(value.meta, "expected object")))}

\* FromValue::from_value for target type T: the set of outcomes, None for a
\* panic.
from_value(T, value) ==
    CASE T[1] = "String" -> {Some(primitive_from_value("String", "expected a string", value))}
      [] T[1] = "bool" -> {Some(primitive_from_value("Bool", "expected a boolean", value))}
      [] T[1] = "u64" ->
            {Some(numeric_from_value("U64", "expected an unsigned integer", value))}
      [] T[1] = "i64" -> {Some(numeric_from_value("I64", "expected a signed integer", value))}
      [] T[1] = "f64" ->
            {Some(numeric_from_value("F64", "expected a floating point value", value))}
      [] T[1] = "Uuid" -> {Some(uuid_from_value(value))}
      [] T[1] = "DateTime" -> datetime_from_value(value)
      [] T[1] = "Value" -> {Some(value)}
      [] T[1] = "Vec" -> vec_from_value(T[2], value)
      [] T[1] = "Map" -> map_from_value(T[2], value)

RECURSIVE to_value(_, _)
\* ToValue for Vec<Annotated<T>>.
vec_to_value(T, value) ==
    IF value.value # None
    THEN Annotated(Some(Value_Array([i \in 1..Len(unwrap(value.value)) |->
                                        to_value(T, unwrap(value.value)[i])])), value.meta)
    ELSE Annotated(None, value.meta)

\* ToValue for BTreeMap<String, Annotated<T>>.
map_to_value(T, value) ==
    IF value.value # None
    THEN Annotated(Some(Value_Object([k \in DOMAIN unwrap(value.value) |->
                                        to_value(T, unwrap(value.value)[k])])), value.meta)
    ELSE Annotated(None, value.meta)

\* ToValue::to_value for target type T.
to_value(T, value) ==
    CASE T[1] = "String" -> primitive_to_value("String", value)
      [] T[1] = "bool" -> primitive_to_value("Bool", value)
      [] T[1] = "u64" -> numeric_to_value("U64", value)
      [] T[1] = "i64" -> numeric_to_value("I64", value)
      [] T[1] = "f64" -> numeric_to_value("F64", value)
      [] T[1] = "Uuid" -> uuid_to_value(value)
      [] T[1] = "DateTime" -> datetime_to_value(value)
      [] T[1] = "Value" -> value
      [] T[1] = "Vec" -> vec_to_value(T[2], value)
      [] T[1] = "Map" -> map_to_value(T[2], value)

\* MetaTree: a node's meta and the trees of its children by key.
MetaTree(meta, children) == [meta |-> meta, children |-> children]
NoChildren == [k \in {} |-> 0]
\* MetaTree::is_empty: the entry carries no diagnostics, neither errors nor
\* flags.
MetaTree_is_empty(tree) == Meta_is_empty(tree.meta)
\* usize::to_string of a position of the enumeration, which counts from 0.
idx_to_string(i) == ToString(i - 1)

RECURSIVE extract_meta_tree(_, _)
\* ToValue::extract_meta_tree, the default of the trait.
default_extract_meta_tree(value) == MetaTree(value.meta, NoChildren)

\* The children inserted for a sequence of items of type T.
items_children(T, items) ==
    LET trees == [i \in 1..Len(items) |-> extract_meta_tree(T, items[i])]
        kept == {i \in 1..Len(items) : ~MetaTree_is_empty(trees[i])}
    IN [k \in {idx_to_string(i) : i \in kept} |->
            trees[CHOOSE i \in kept : idx_to_string(i) = k]]

\* The children inserted for the entries of a mapping of values of type T.
entries_children(T, items) ==
    LET trees == [k \in DOMAIN items |-> extract_meta_tree(T, items[k])]
    IN [k \in {j \in DOMAIN items : ~MetaTree_is_empty(trees[j])} |-> trees[k]]

\* Mutant of vec_extract_meta_tree: every item is attached.
vec_extract_meta_tree_attach_all(T, value) ==
    IF value.value # None
    THEN MetaTree(value.meta,
                  [k \in {idx_to_string(i) : i \in 1..Len(unwrap(value.value))} |->
                      extract_meta_tree(T, unwrap(value.value)[
                          CHOOSE i \in 1..Len(unwrap(value.value)) : idx_to_string(i) = k])])
    ELSE MetaTree(value.meta, NoChildren)

\* ToValue::extract_meta_tree for Vec<Annotated<T>>.
vec_extract_meta_tree(T, value) ==
    IF value.value # None
    THEN MetaTree(value.meta, items_children(T, unwrap(value.value)))
    ELSE MetaTree(value.meta, NoChildren)

\* ToValue::extract_meta_tree for BTreeMap<String, Annotated<T>>.
map_extract_meta_tree(T, value) ==
    IF value.value # None
    THEN MetaTree(value.meta, entries_children(T, unwrap(value.value)))
    ELSE MetaTree(value.meta, NoChildren)

\* ToValue::extract_meta_tree for Value.
value_extract_meta_tree(value) ==
    IF value.value # None /\ variant(unwrap(value.value)) = "Object"
    THEN MetaTree(value.meta, entries_children(<<"Value">>, payload(unwrap(value.value))))
    ELSE IF value.value # None /\ variant(unwrap(value.value)) = "Array"
    THEN MetaTree(value.meta, items_children(<<"Value">>, payload(unwrap(value.value))))
    ELSE MetaTree(value.meta, NoChildren)

\* ToValue::extract_meta_tree for target type T.
extract_meta_tree(T, value) ==
    CASE T[1] = "Vec" -> vec_extract_meta_tree(T[2], value)
      [] T[1] = "Map" -> map_extract_meta_tree(T[2], value)
      [] T[1] = "Value" -> value_extract_meta_tree(value)
      [] OTHER -> default_extract_meta_tree(value)

\* Annotated::skip_serialization: nothing to write, neither a value nor
\* diagnostics.
skip_serialization(value) == value.value = None /\ Meta_is_empty(value.meta)

\* What a serializer is handed: <<"unit">>, <<"none">>, <<"some", v>>,
\* <<"f64", units>>, <<"seq", elements>> or <<"map", entries>> with entries
\* <<key, payload>>.
\* Serialize::serialize of an Option.
serialize_option(value) == IF value = None THEN <<"none">> ELSE <<"some", unwrap(value)>>

RECURSIVE serialize_payload(_, _)
\* ToValue::serialize_payload for Vec<Annotated<T>>.
vec_serialize_payload(T, value) ==
    IF value.value # None
    THEN <<"seq", [i \in 1..Len(unwrap(value.value)) |->
                      serialize_payload(T, unwrap(value.value)[i])]>>
    ELSE <<"unit">>

RECURSIVE map_entries(_, _, _)
\* The loop over the entries, in key order.
map_entries(T, items, keys) ==
    IF keys = <<>> THEN <<>>
    ELSE IF Head(keys) \in DOMAIN items /\ ~skip_serialization(items[Head(keys)])
    THEN <<<<Head(keys), serialize_payload(T, items[Head(keys)])>>>>
            \o map_entries(T, items, Tail(keys))
    ELSE map_entries(T, items, Tail(keys))

\* Mutant of map_serialize_payload: every entry is written.
map_serialize_payload_all(T, value) ==
    IF value.value # None
    THEN <<"map", [i \in 1..Len(SelectSeq(KeyOrder, LAMBDA k : k \in DOMAIN unwrap(value.value))) |->
                     LET k == SelectSeq(KeyOrder, LAMBDA j : j \in DOMAIN unwrap(value.value))[i]
                     IN <<k, serialize_payload(T, unwrap(value.value)[k])>>]>>
    ELSE <<"unit">>

\* ToValue::serialize_payload for BTreeMap<String, Annotated<T>>.
map_serialize_payload(T, value) ==
    IF value.value # None
    THEN <<"map", map_entries(T, unwrap(value.value), KeyOrder)>>
    ELSE <<"unit">>

\* ToValue::serialize_payload for DateTime<Utc>.
datetime_serialize_payload(value) ==
    IF value.value # None
    THEN <<"f64", datetime_to_timestamp(unwrap(value.value))>>
    ELSE <<"unit">>

\* ToValue::serialize_payload for target type T.
serialize_payload(T, value) ==
    CASE T[1] = "Vec" -> vec_serialize_payload(T[2], value)
      [] T[1] = "Map" -> map_serialize_payload(T[2], value)
      [] T[1] = "DateTime" -> datetime_serialize_payload(value)
      [] OTHER -> serialize_option(value.value)

\* ----------------------------------------------------- conversion inputs
\* Floats, in sub-second units: a little beyond the representable seconds.
F64s == (0 - (TsMax + 1) * SubSec)..((TsMax + 1) * SubSec)
Strings == {"a", "1970-01-01T00:00:01", "1970-01-01T00:00:01Z"} \cup UuidStrings
ErrorMeta == MetaOf(<<"earlier error">>, {})
FlagMeta == MetaOf(<<>>, {"truncated"})
Metas == {EmptyMeta, ErrorMeta, FlagMeta}
Scalars ==
    {Value_Null, Value_Bool(TRUE)} \cup {Value_U64(n) : n \in U64s}
        \cup {Value_I64(n) : n \in I64s} \cup {Value_F64(u) : u \in F64s}
        \cup {Value_String(str) : str \in Strings}
AnnScalars == {Annotated(v, meta) : v \in {None} \cup {Some(x) : x \in Scalars}, meta \in Metas}
\* The children of the composite inputs.
ElemPool ==
    {Annotated(Some(Value_String("a")), EmptyMeta), Annotated(Some(Value_Null), EmptyMeta),
     Annotated(None, EmptyMeta), Annotated(Some(Value_Bool(TRUE)), EmptyMeta),
     Annotated(Some(Value_I64(1)), EmptyMeta),
     Annotated(Some(Value_I64(Pow2(IntBits - 1) - 1)), EmptyMeta),
     Annotated(Some(Value_String("a")), ErrorMeta), Annotated(None, FlagMeta)}
ContainerMetas == {EmptyMeta, ErrorMeta}
AnnArrays ==
    {Annotated(Some(Value_Array(items)), meta) :
        items \in SeqsUpTo(ElemPool, MaxLen), meta \in ContainerMetas}
AnnObjects ==
    {Annotated(Some(Value_Object(items)), meta) :
        items \in UNION {[D -> ElemPool] : D \in SUBSET Keys}, meta \in ContainerMetas}
\* Composite inputs two levels deep.
InnerArrays ==
    {Annotated(Some(Value_Array(<<x>>)), meta) :
        x \in {Annotated(Some(Value_String("a")), ErrorMeta),
               Annotated(Some(Value_String("a")), EmptyMeta),
               Annotated(Some(Value_Bool(TRUE)), EmptyMeta)},
        meta \in ContainerMetas}
Nested ==
    {Annotated(Some(Value_Array(<<x>>)), EmptyMeta) : x \in InnerArrays}
        \cup {Annotated(Some(Value_Object([k \in {"a"} |-> x])), EmptyMeta) : x \in InnerArrays}
Inputs == AnnScalars \cup AnnArrays \cup AnnObjects \cup Nested
ScalarTargets ==
    {<<"String">>, <<"bool">>, <<"u64">>, <<"i64">>, <<"f64">>, <<"Uuid">>, <<"DateTime">>}
Targets ==
    ScalarTargets \cup
    {<<"Value">>, <<"Vec", <<"String">>>>, <<"Vec", <<"DateTime">>>>, <<"Vec", <<"Value">>>>,
     <<"Vec", <<"Vec", <<"String">>>>>>, <<"Map", <<"String">>>>, <<"Map", <<"Vec", <<"String">>>>>>}

\* ===================================================================
\* Processing state and paths (src/processor.rs)
\* ===================================================================
\* Most processing states one walk holds.
MaxStates == 4

\* PathItem.
PathItem_StaticKey(s) == <<"StaticKey", s>>
PathItem_DynamicKey(s) == <<"DynamicKey", s>>
PathItem_Index(idx) == <<"Index", idx>>

\* FieldAttrs.
FieldAttrs(name, required, cap_size, pii_kind) ==
    [name |-> name, required |-> required, cap_size |-> cap_size, pii_kind |-> pii_kind]
DEFAULT_FIELD_ATTRS == FieldAttrs(None, FALSE, None, None)

\* ProcessingState.  The states of a walk are kept in the order they were
\* created; a reference to a state is its position there, the parent of the
\* root is None.
ProcessingState(parent, path, attrs) == [parent |-> parent, path |-> path, attrs |-> attrs]
\* The state a walk starts from.
RootState == ProcessingState(None, None, None)

\* ProcessingState::enter_static.
enter_static(self, key, attrs) ==
    ProcessingState(Some(self), Some(PathItem_StaticKey(key)), attrs)
\* ProcessingState::enter_borrowed.
enter_borrowed(self, key, attrs) ==
    ProcessingState(Some(self), Some(PathItem_StaticKey(key)), attrs)
\* ProcessingState::enter_index.
enter_index(self, idx, attrs) ==
    ProcessingState(Some(self), Some(PathItem_Index(idx)), attrs)

\* ProcessingState::attrs.
attrs(state) == IF state.attrs # None THEN unwrap(state.attrs) ELSE DEFAULT_FIELD_ATTRS

\* Path::key.
Path_key(state) ==
    IF state.path = None THEN None
    ELSE IF unwrap(state.path)[1] = "Index" THEN None
    ELSE Some(unwrap(state.path)[2])

\* Path::index.
Path_index(state) ==
    IF state.path = None THEN None
    ELSE IF unwrap(state.path)[1] = "Index" THEN Some(unwrap(state.path)[2])
    ELSE None

RECURSIVE Path_items(_, _)
\* The loop of Path::iter: the items pushed from the state up to the root.
Path_items(states, ptr) ==
    IF ptr = None THEN <<>>
    ELSE LET p == states[unwrap(ptr)]
         IN (IF p.path # None THEN <<unwrap(p.path)>> ELSE <<>>) \o Path_items(states, p.parent)

\* Vec::reverse.
reverse(items) == [i \in 1..Len(items) |-> items[Len(items) + 1 - i]]

\* Mutant of Path_iter: the items are not reversed.
Path_iter_leaf_first(states, self) == Path_items(states, Some(self))

\* Path::iter.
Path_iter(states, self) == reverse(Path_items(states, Some(self)))

\* A walk so far: the states created, and for each of them the segments in
\* the order they were entered.
\* A child state is created from the state at position self.
Enter(w, self, child) ==
    [states |-> Append(w.states, child),
     entered |-> Append(w.entered, Append(w.entered[self], unwrap(child.path)))]

RECURSIVE vec_process_items(_, _, _, _)
\* The closure of Vec's process_value over enumerate(), from idx on; the
\* items are primitives, whose process_value is the identity.
vec_process_items(w, self, len, idx) ==
    IF idx >= len THEN w
    ELSE vec_process_items(Enter(w, self, enter_index(self, idx, None)), self, len, idx + 1)

\* ProcessValue::process_value for Vec<Annotated<T>> of len items.
vec_process_value(w, self, len) == vec_process_items(w, self, len, 0)

RECURSIVE map_process_entries(_, _, _)
\* The closure of BTreeMap's process_value over the entries, in key order.
map_process_entries(w, self, keys) ==
    IF keys = <<>> THEN w
    ELSE map_process_entries(Enter(w, self, enter_borrowed(self, Head(keys), None)),
                             self, Tail(keys))

\* ProcessValue::process_value for BTreeMap<String, Annotated<T>>.
map_process_value(w, self, domain) ==
    map_process_entries(w, self, SelectSeq(KeyOrder, LAMBDA k : k \in domain))

RECURSIVE value_process_value(_, _, _)
RECURSIVE value_process_items(_, _, _, _)
\* The closure over the items of a Value::Array.
value_process_items(w, self, items, idx) ==
    IF idx >= Len(items) THEN w
    ELSE LET inner == Enter(w, self, enter_index(self, idx, None))
         IN value_process_items(
                value_process_value(inner, Len(inner.states), items[idx + 1]),
                self, items, idx + 1)

RECURSIVE value_process_entries(_, _, _, _)
\* The closure over the entries of a Value::Object.
value_process_entries(w, self, items, keys) ==
    IF keys = <<>> THEN w
    ELSE LET inner == Enter(w, self, enter_borrowed(self, Head(keys), None))
         IN value_process_entries(
                value_process_value(inner, Len(inner.states), items[Head(keys)]),
                self, items, Tail(keys))

\* ProcessValue::process_value for Value.
value_process_value(w, self, value) ==
    IF value.value # None /\ variant(unwrap(value.value)) = "Object"
    THEN value_process_entries(w, self, payload(unwrap(value.value)),
             SelectSeq(KeyOrder, LAMBDA k : k \in DOMAIN payload(unwrap(value.value))))
    ELSE IF value.value # None /\ variant(unwrap(value.value)) = "Array"
    THEN value_process_items(w, self, payload(unwrap(value.value)), 0)
    ELSE w

\* -------------------------------------------------------- walk inputs
\* Attrs a walk supplies when it enters a child: none, or those of a
\* required field.
OptAttrs == {None, Some(FieldAttrs(Some("exception"), TRUE, None, None))}
\* Value trees handed to the Value walk.
ValueTrees ==
    LET Leaf == Annotated(Some(Value_String("a")), EmptyMeta)
    IN {Leaf,
        Annotated(Some(Value_Array(<<Leaf, Leaf>>)), EmptyMeta),
        Annotated(Some(Value_Object([k \in {"a"} |->
            Annotated(Some(Value_Array(<<Leaf>>)), EmptyMeta)])), EmptyMeta),
        Annotated(Some(Value_Array(<<Annotated(Some(Value_Object([k \in {"b"} |-> Leaf])),
                                               EmptyMeta), Leaf>>)), EmptyMeta)}

\* ===================================================================
\* Metrics client (relay-common/src/metrics.rs)
\* ===================================================================
Threads == {"t1", "t2"}
\* Statsd clients handed to set_client.
Clients == {"c1", "c2"}

\* A thread's CURRENT_CLIENT: not yet initialised, or the Option it was
\* initialised with, METRICS_CLIENT.read().clone() at that moment.
Uninitialised == <<"uninit">>
Initialised(client) == <<"init", client>>
CURRENT_CLIENT_with(slot, global) == IF slot = Uninitialised THEN Initialised(global) ELSE slot

\* Mutant of with_client: without a client the callback runs on a fallback.
with_client_unconditional(client) ==
    [invoked |-> Some(unwrap_or(client, "fallback")), returned |-> "callback"]

\* with_client on the thread's client: the callback is invoked with it, or
\* R::default() is returned.
with_client(client) ==
    IF client # None
    THEN [invoked |-> Some(unwrap(client)), returned |-> "callback"]
    ELSE [invoked |-> None, returned |-> "default"]

\* ------------------------------------------------------------------- state
VARIABLES
    processor,   \* the TransactionsProcessor instance
    input,       \* Option: the event as it was handed to process_event
    event,       \* Option: that event as process_event left it
    result,      \* Option: what process_event returned
    calls,       \* the hooks the walk of that event invoked, in order
    handled,     \* the number of events the processor has been handed
    stale,       \* the drift the processor held when the event was handed in
    target,      \* Option: the type from_value was called for
    value,       \* Option: the Annotated<Value> handed to from_value
    parsed,      \* <<"none">>, <<"panic">> or <<"ok", Annotated<T>>>
    boxed,       \* Option: what to_value made of the parsed value
    meta_tree,   \* Option: what extract_meta_tree returned for it
    written,     \* Option: what serialize_payload handed the serializer
    states,      \* the processing states of a walk, in order of creation
    entered,     \* for each of them, the segments in the order entered
    walked,      \* <<"none">>, or <<kind, state, first, len>> once the walk
                 \* has run process_value of a collection
    METRICS_CLIENT,  \* the global Option of the statsd client
    CURRENT_CLIENT,  \* each thread's thread-local copy
    configured,  \* the most recent configuration call: <<"never">>,
                 \* <<"set", client>> or <<"disabled">>
    ever_set,    \* whether set_client has ever been called
    emitted      \* <<"none">> or the last with_client call: the thread,
                 \* what it did and the configuration at that time

txvars == <<processor, input, event, result, calls, handled, stale>>
convvars == <<target, value, parsed, boxed, meta_tree, written>>
pathvars == <<states, entered, walked>>
metricvars == <<METRICS_CLIENT, CURRENT_CLIENT, configured, ever_set, emitted>>
vars == <<processor, input, event, result, calls, handled, stale,
          target, value, parsed, boxed, meta_tree, written,
          states, entered, walked,
          METRICS_CLIENT, CURRENT_CLIENT, configured, ever_set, emitted>>

\* No event has been handed to the processor.
TxIdle ==
    /\ input = None
    /\ event = None
    /\ result = None
    /\ calls = <<>>
    /\ handled = 0
    /\ stale = None

\* Nothing has been converted yet.
ConvIdle ==
    /\ target = None
    /\ value = None
    /\ parsed = <<"none">>
    /\ boxed = None
    /\ meta_tree = None
    /\ written = None

\* A walk is at its root state.
PathIdle ==
    /\ states = <<RootState>>
    /\ entered = <<<<>>>>
    /\ walked = <<"none">>

\* The process has started: no client is configured, no thread has used
\* its thread-local.
MetricsIdle ==
    /\ METRICS_CLIENT = None
    /\ CURRENT_CLIENT = [t \in Threads |-> Uninitialised]
    /\ configured = <<"never">>
    /\ ever_set = FALSE
    /\ emitted = <<"none">>

\* A processor is constructed; no event has been handed to it yet.
Init ==
    /\ \E sent_at \in OptTs, now \in Ts : processor = new(sent_at, now)
    /\ TxIdle
    /\ ConvIdle
    /\ PathIdle
    /\ MetricsIdle

\* The freshly constructed processor is handed an event: process_event runs
\* to its return.
ProcessEvent ==
    /\ input = None
    /\ \E e \in Events :
         LET out == process_event(processor, e)
         IN /\ processor' = out.self
            /\ input' = Some(e)
            /\ event' = Some(out.event)
            /\ result' = Some(out.result)
            /\ calls' = out.calls
    /\ handled' = handled + 1
    /\ stale' = processor.client_clock_drift
    /\ UNCHANGED <<convvars, pathvars, metricvars>>

Next == ProcessEvent

Spec == Init /\ [][Next]_vars

\* ------------------------------------------------ one processor, many events
\* The processor is handed its next event, up to MaxEvents of them: process_event runs to its return.
ProcessNextEvent ==
    /\ handled < MaxEvents
    /\ \E e \in ReuseEvents :
         LET out == process_event(processor, e)
         IN /\ processor' = out.self
            /\ input' = Some(e)
            /\ event' = Some(out.event)
            /\ result' = Some(out.result)
            /\ calls' = out.calls
    /\ handled' = handled + 1
    /\ stale' = processor.client_clock_drift
    /\ UNCHANGED <<convvars, pathvars, metricvars>>

ReuseSpec == Init /\ [][ProcessNextEvent]_vars

\* --------------------------------------------------- the conversion layer
\* No event is being processed; a value is about to be converted.
ConvInit ==
    /\ processor = new(None, 0)
    /\ TxIdle
    /\ ConvIdle
    /\ PathIdle
    /\ MetricsIdle

\* FromValue::from_value is called for a target type: it returns the typed
\* value or it panics.
FromValue ==
    /\ value = None
    /\ \E T \in Targets, v \in Inputs :
         \E outcome \in from_value(T, v) :
            /\ target' = Some(T)
            /\ value' = Some(v)
            /\ parsed' = IF outcome = None THEN <<"panic">> ELSE <<"ok", unwrap(outcome)>>
    /\ UNCHANGED <<boxed, meta_tree, written>>
    /\ UNCHANGED <<txvars, pathvars, metricvars>>

\* ToValue::to_value boxes the typed value back into a Value.
ToValue ==
    /\ parsed[1] = "ok"
    /\ boxed = None
    /\ boxed' = Some(to_value(unwrap(target), parsed[2]))
    /\ UNCHANGED <<target, value, parsed, meta_tree, written>>
    /\ UNCHANGED <<txvars, pathvars, metricvars>>

\* ToValue::extract_meta_tree reads the typed value.
ExtractMetaTree ==
    /\ parsed[1] = "ok"
    /\ meta_tree = None
    /\ meta_tree' = Some(extract_meta_tree(unwrap(target), parsed[2]))
    /\ UNCHANGED <<target, value, parsed, boxed, written>>
    /\ UNCHANGED <<txvars, pathvars, metricvars>>

\* ToValue::serialize_payload streams the typed value.
SerializePayload ==
    /\ parsed[1] = "ok"
    /\ written = None
    /\ written' = Some(serialize_payload(unwrap(target), parsed[2]))
    /\ UNCHANGED <<target, value, parsed, boxed, meta_tree>>
    /\ UNCHANGED <<txvars, pathvars, metricvars>>

ConvNext == FromValue \/ ToValue \/ ExtractMetaTree \/ SerializePayload

ConvSpec == ConvInit /\ [][ConvNext]_vars

\* ------------------------------------------------------ processing states
\* No processor is at work: a walk is at its root state, the process has
\* just started.
LibraryInit ==
    /\ processor = new(None, 0)
    /\ TxIdle
    /\ ConvIdle
    /\ PathIdle
    /\ MetricsIdle

\* A derived walk enters a field under its static key.
EnterStatic ==
    /\ walked = <<"none">>
    /\ Len(states) < MaxStates
    /\ \E self \in 1..Len(states), key \in {"exception"}, a \in OptAttrs :
         LET w == Enter([states |-> states, entered |-> entered], self, enter_static(self, key, a))
         IN states' = w.states /\ entered' = w.entered
    /\ UNCHANGED walked
    /\ UNCHANGED <<txvars, convvars, metricvars>>

\* A walk enters an entry under its key.
EnterBorrowed ==
    /\ walked = <<"none">>
    /\ Len(states) < MaxStates
    /\ \E self \in 1..Len(states), key \in {"a"}, a \in OptAttrs :
         LET w == Enter([states |-> states, entered |-> entered], self, enter_borrowed(self, key, a))
         IN states' = w.states /\ entered' = w.entered
    /\ UNCHANGED walked
    /\ UNCHANGED <<txvars, convvars, metricvars>>

\* A walk enters an element under its index.
EnterIndex ==
    /\ walked = <<"none">>
    /\ Len(states) < MaxStates
    /\ \E self \in 1..Len(states), idx \in {1}, a \in OptAttrs :
         LET w == Enter([states |-> states, entered |-> entered], self, enter_index(self, idx, a))
         IN states' = w.states /\ entered' = w.entered
    /\ UNCHANGED walked
    /\ UNCHANGED <<txvars, convvars, metricvars>>

\* process_value of a Vec<Annotated<T>> runs at the state created last.
ProcessVec ==
    /\ walked = <<"none">>
    /\ \E len \in 0..MaxLen :
        /\ Len(states) + len <= MaxStates
        /\ LET w == vec_process_value([states |-> states, entered |-> entered], Len(states), len)
           IN states' = w.states /\ entered' = w.entered
        /\ walked' = <<"vec", Len(states), Len(states), len>>
    /\ UNCHANGED <<txvars, convvars, metricvars>>

\* process_value of a BTreeMap<String, Annotated<T>> runs at the state created last.
ProcessMap ==
    /\ walked = <<"none">>
    /\ \E domain \in SUBSET Keys :
        /\ Len(states) + Cardinality(domain) <= MaxStates
        /\ LET w == map_process_value([states |-> states, entered |-> entered], Len(states), domain)
           IN states' = w.states /\ entered' = w.entered
        /\ walked' = <<"map", Len(states), Len(states), Cardinality(domain)>>
    /\ UNCHANGED <<txvars, convvars, metricvars>>

\* process_value of a Value runs at the state created last.
ProcessValue ==
    /\ walked = <<"none">>
    /\ \E tree \in ValueTrees :
        LET w == value_process_value([states |-> states, entered |-> entered], Len(states), tree)
        IN /\ Len(w.states) <= MaxStates
           /\ states' = w.states
           /\ entered' = w.entered
           /\ walked' = <<"value", Len(states), Len(states), Len(w.states) - Len(states)>>
    /\ UNCHANGED <<txvars, convvars, metricvars>>

PathNext ==
    EnterStatic \/ EnterBorrowed \/ EnterIndex \/ ProcessVec \/ ProcessMap \/ ProcessValue

PathSpec == LibraryInit /\ [][PathNext]_vars

\* ---------------------------------------------------------- metrics client
\* set_client: the write lock is taken and the client stored.
SetClient ==
    /\ \E c \in Clients :
         /\ METRICS_CLIENT' = Some(c)
         /\ configured' = <<"set", c>>
    /\ ever_set' = TRUE
    /\ UNCHANGED <<CURRENT_CLIENT, emitted>>
    /\ UNCHANGED <<txvars, convvars, pathvars>>

\* disable: the write lock is taken and the client removed.
Disable ==
    /\ METRICS_CLIENT' = None
    /\ configured' = <<"disabled">>
    /\ UNCHANGED <<CURRENT_CLIENT, ever_set, emitted>>
    /\ UNCHANGED <<txvars, convvars, pathvars>>

\* A thread calls with_client: its thread-local is initialised on first
\* use, then the callback runs or the default is returned.
WithClient ==
    /\ \E t \in Threads :
         LET slot == CURRENT_CLIENT_with(CURRENT_CLIENT[t], METRICS_CLIENT)
             out == with_client(slot[2])
         IN /\ CURRENT_CLIENT' = [CURRENT_CLIENT EXCEPT ![t] = slot]
            /\ emitted' = <<"call", t, out, configured>>
    /\ UNCHANGED <<METRICS_CLIENT, configured, ever_set>>
    /\ UNCHANGED <<txvars, convvars, pathvars>>

MetricsNext == SetClient \/ Disable \/ WithClient

MetricsSpec == LibraryInit /\ [][MetricsNext]_vars

\* ===================================================================
\* Properties
\* ===================================================================
\* An event has been processed.
Done == input # None
In == unwrap(input)
Out == unwrap(event)
Rejected(reason) == result = Some(InvalidTransaction(reason))
Accepted == Done /\ In.ty = Some("transaction") /\ result = Some(Ok)
\* The child walk of the event was invoked.
WalkInvoked == \E i \in 1..Len(calls) : calls[i].hook = "process_child_values"
Invoked(hook, span, field) == \E i \in 1..Len(calls) : calls[i] = Call(hook, span, field)
BothTimestamps(e) == e.timestamp # None /\ e.start_timestamp # None
PassesTimestamps(e) == BothTimestamps(e) /\ e.timestamp[1] >= e.start_timestamp[1]
\* The contexts hold a non-null trace-context variant under "trace".
HasTraceContext(e) ==
    /\ e.contexts # None
    /\ "trace" \in DOMAIN e.contexts[1]
    /\ e.contexts[1]["trace"] # None
    /\ e.contexts[1]["trace"][1].variant = "trace"
TraceOf(e) == e.contexts[1]["trace"][1]
PassesTraceContext(e) ==
    HasTraceContext(e) /\ TraceOf(e).trace_id # None /\ TraceOf(e).span_id # None
SpanCount(e) == IF e.spans = None THEN 0 ELSE Len(e.spans[1])
HasNullSpan(e) == \E i \in 1..SpanCount(e) : e.spans[1][i] = None
\* The drift of the claims: sent_at if supplied, else the event's end
\* timestamp as handed in, minus now.
Drift == (IF processor.sent_at # None THEN processor.sent_at[1] ELSE In.timestamp[1])
            - processor.now
Representable(t) == t >= TsMin /\ t <= TsMax

\* C1: an event whose type is not "transaction" (or is absent) is returned
\* Ok and unmodified, and the child walk is not invoked for it.
C1_NonTransactionPassesThrough ==
    (Done /\ In.ty # Some("transaction"))
        => (result = Some(Ok) /\ event = input /\ calls = <<>>
            /\ processor.client_clock_drift = None)
\* A typeless event with an empty name, timestamps and a span went through.
C1_Witness ==
    /\ Done /\ In.ty = None /\ In.transaction = Some("")
    /\ In.timestamp = Some(TsMax) /\ In.start_timestamp = Some(0)
    /\ SpanCount(In) = 1 /\ ~HasNullSpan(In)
    /\ processor.sent_at = Some(0) /\ processor.now = TsMin
    /\ result = Some(Ok)

\* C2: with both timestamps present a transaction event is rejected with
\* "end timestamp is smaller than start timestamp" exactly when
\* timestamp < start_timestamp; equal timestamps are not rejected by it.
C2_EndBeforeStartRejected ==
    (Done /\ In.ty = Some("transaction") /\ BothTimestamps(In))
        => (Rejected("end timestamp is smaller than start timestamp")
                <=> In.timestamp[1] < In.start_timestamp[1])
C2_Witness ==
    /\ Done /\ In.ty = Some("transaction") /\ BothTimestamps(In)
    /\ In.timestamp[1] < In.start_timestamp[1]
    /\ Rejected("end timestamp is smaller than start timestamp")

\* C3: a transaction event without timestamp is rejected with "timestamp
\* hard-required ...", with or without start_timestamp; one with timestamp
\* but without start_timestamp is rejected with "start_timestamp
\* hard-required ..."; the missing value is not filled in.
C3_MissingTimestampRejected ==
    (Done /\ In.ty = Some("transaction") /\ ~BothTimestamps(In))
        => /\ In.timestamp = None
                => Rejected("timestamp hard-required for transaction events")
           /\ In.timestamp # None
                => Rejected("start_timestamp hard-required for transaction events")
           /\ Out.timestamp = In.timestamp
           /\ Out.start_timestamp = In.start_timestamp
C3_Witness ==
    /\ Done /\ In.ty = Some("transaction")
    /\ In.timestamp = None /\ In.start_timestamp = None
    /\ Rejected("timestamp hard-required for transaction events")

\* C4: a transaction event that passes the timestamp checks is rejected at
\* the trace-context requirement unless "trace" holds a non-null context of
\* the trace variant, and only then gets past it.
C4_TraceContextRequired ==
    (Done /\ In.ty = Some("transaction") /\ PassesTimestamps(In))
        => (HasTraceContext(In)
              <=> ~(\/ Rejected("trace context hard-required for transaction events")
                    \/ Rejected("context at event.contexts.trace must be of type trace.")))
C4_Witness ==
    /\ Done /\ In.ty = Some("transaction") /\ PassesTimestamps(In)
    /\ In.contexts # None /\ "trace" \in DOMAIN In.contexts[1]
    /\ In.contexts[1]["trace"] # None /\ ~HasTraceContext(In)
    /\ Rejected("context at event.contexts.trace must be of type trace.")

\* C5 as stated: every transaction event with a trace context that lacks
\* trace_id is rejected with "trace context is missing trace_id", and one
\* that lacks only span_id with "trace context is missing span_id".
C5_Original ==
    (Done /\ In.ty = Some("transaction") /\ HasTraceContext(In))
        => /\ TraceOf(In).trace_id = None => Rejected("trace context is missing trace_id")
           /\ (TraceOf(In).trace_id # None /\ TraceOf(In).span_id = None)
                => Rejected("trace context is missing span_id")
\* C5 (amended): a transaction event that passes the timestamp checks and has
\* a trace context is rejected with "trace context is missing trace_id" when
\* trace_id is missing (also when span_id is missing too) and with "trace
\* context is missing span_id" when only span_id is missing.
C5_MissingTraceIds ==
    (Done /\ In.ty = Some("transaction") /\ PassesTimestamps(In) /\ HasTraceContext(In))
        => /\ TraceOf(In).trace_id = None => Rejected("trace context is missing trace_id")
           /\ (TraceOf(In).trace_id # None /\ TraceOf(In).span_id = None)
                => Rejected("trace context is missing span_id")
C5_Witness ==
    /\ Done /\ In.ty = Some("transaction") /\ PassesTimestamps(In) /\ HasTraceContext(In)
    /\ TraceOf(In).trace_id = None /\ TraceOf(In).span_id = None
    /\ Rejected("trace context is missing trace_id")

\* C6: for a transaction event that passes the timestamp and trace-context
\* checks, an absent and an empty span collection both get past the span-list
\* check into the child walk, and a collection with a null element at any
\* index is rejected with "spans must be valid in transaction event".
C6_SpanListCheck ==
    (Done /\ In.ty = Some("transaction") /\ PassesTimestamps(In) /\ PassesTraceContext(In))
        => /\ SpanCount(In) = 0
                => (~Rejected("spans must be valid in transaction event") /\ WalkInvoked)
           /\ HasNullSpan(In)
                => (Rejected("spans must be valid in transaction event") /\ ~WalkInvoked)
\* A valid span at index 0 and a null slot at index 1.
C6_Witness ==
    /\ Done /\ In.ty = Some("transaction") /\ PassesTimestamps(In) /\ PassesTraceContext(In)
    /\ SpanCount(In) = 2
    /\ In.spans[1][1] = Some(TestSpan(Some("op"))) /\ In.spans[1][2] = None
    /\ Rejected("spans must be valid in transaction event")

\* The value the claims expect of a timestamp handed in as a, were the
\* subtraction always representable.
Shifted(a) == Some(a[1] - Drift)
\* The same, with an unrepresentable difference leaving the value alone.
Corrected(a) == IF Representable(a[1] - Drift) THEN Some(a[1] - Drift) ELSE a

\* C7 as stated: in an accepted transaction event every timestamp (event and
\* spans) equals its value before minus the drift.
C7_Original ==
    Accepted
        => /\ Out.timestamp = Shifted(In.timestamp)
           /\ Out.start_timestamp = Shifted(In.start_timestamp)
           /\ \A i \in 1..SpanCount(In) :
                /\ Out.spans[1][i][1].timestamp = Shifted(In.spans[1][i][1].timestamp)
                /\ Out.spans[1][i][1].start_timestamp
                        = Shifted(In.spans[1][i][1].start_timestamp)
\* C7 (amended): in an accepted transaction event the drift stored is sent_at
\* (or the end timestamp handed in) minus now, and every timestamp (event and
\* spans) whose value minus that drift is representable equals its value
\* before minus that same drift; the others keep their value.  With a zero
\* drift nothing changes.
C7_UniformDrift ==
    Accepted
        => /\ processor.client_clock_drift = Some(Drift)
           /\ Out.timestamp = Corrected(In.timestamp)
           /\ Out.start_timestamp = Corrected(In.start_timestamp)
           /\ \A i \in 1..SpanCount(In) :
                /\ Out.spans[1][i][1].timestamp = Corrected(In.spans[1][i][1].timestamp)
                /\ Out.spans[1][i][1].start_timestamp
                        = Corrected(In.spans[1][i][1].start_timestamp)
           /\ Drift = 0 => (Out.timestamp = In.timestamp
                            /\ Out.start_timestamp = In.start_timestamp
                            /\ \A i \in 1..SpanCount(In) :
                                 /\ Out.spans[1][i][1].timestamp = In.spans[1][i][1].timestamp
                                 /\ Out.spans[1][i][1].start_timestamp
                                        = In.spans[1][i][1].start_timestamp)
\* A non-zero drift moved both event timestamps and both timestamps of a span.
C7_Witness ==
    /\ Accepted /\ Drift # 0 /\ SpanCount(In) >= 1
    /\ Out.timestamp = Shifted(In.timestamp)
    /\ Out.start_timestamp = Shifted(In.start_timestamp)
    /\ Out.spans[1][1][1].timestamp = Shifted(In.spans[1][1][1].timestamp)
    /\ Out.spans[1][1][1].start_timestamp = Shifted(In.spans[1][1][1].start_timestamp)

\* A span that meets every per-span rule.
SpanPasses(sp) ==
    /\ sp.timestamp # None /\ sp.start_timestamp # None
    /\ sp.timestamp[1] >= sp.start_timestamp[1]
    /\ sp.trace_id # None /\ sp.span_id # None
Overflows(a) == a # None /\ ~Representable(a[1] - Drift)

\* C8: whenever the walk of a transaction event reaches a timestamp whose
\* value minus the drift is not representable, that timestamp keeps its
\* value, the walk goes on to the next node, and the event is not rejected
\* for it: an event whose spans all meet the per-span rules is accepted.
C8_OverflowLeavesTimestamp ==
    (Done /\ WalkInvoked)
        => /\ result # Some(Panic)
           /\ Overflows(In.timestamp)
                => /\ Out.timestamp = In.timestamp
                   /\ Invoked("process_timestamp", None, "start_timestamp")
           /\ Overflows(In.start_timestamp)
                => /\ Out.start_timestamp = In.start_timestamp
                   /\ SpanCount(In) > 0 => Invoked("process_span", Some(0), "")
           /\ \A i \in 1..SpanCount(In) :
                /\ (Invoked("process_timestamp", Some(i - 1), "timestamp")
                        /\ Overflows(In.spans[1][i][1].timestamp))
                     => /\ Out.spans[1][i][1].timestamp = In.spans[1][i][1].timestamp
                        /\ Invoked("process_timestamp", Some(i - 1), "start_timestamp")
                /\ (Invoked("process_timestamp", Some(i - 1), "start_timestamp")
                        /\ Overflows(In.spans[1][i][1].start_timestamp))
                     => /\ Out.spans[1][i][1].start_timestamp
                                = In.spans[1][i][1].start_timestamp
                        /\ i < SpanCount(In) => Invoked("process_span", Some(i), "")
           /\ (\A i \in 1..SpanCount(In) : SpanPasses(In.spans[1][i][1]))
                => result = Some(Ok)
\* The end timestamp of an accepted event could not be shifted and kept its
\* value, while its start timestamp and a span behind it were still shifted.
C8_Witness ==
    /\ Accepted /\ Overflows(In.timestamp) /\ ~Overflows(In.start_timestamp)
    /\ Drift # 0 /\ SpanCount(In) >= 1
    /\ Out.timestamp = In.timestamp
    /\ Out.start_timestamp = Shifted(In.start_timestamp)
    /\ Out.spans[1][1][1].start_timestamp = Shifted(In.spans[1][1][1].start_timestamp)

Placeholder == Some("<unlabeled transaction>")
Unnamed(e) == e.transaction = None \/ e.transaction = Some("")

\* C9: for every transaction event the name after process_event is the
\* placeholder exactly when the name handed in was absent or empty, a
\* non-empty name is kept, and the result is the one the same event gets
\* with a non-empty name.
C9_NameDefault ==
    (Done /\ In.ty = Some("transaction"))
        => /\ Out.transaction = Placeholder <=> Unnamed(In)
           /\ ~Unnamed(In) => Out.transaction = In.transaction
           /\ result = Some(process_event(new(processor.sent_at, processor.now),
                                          [In EXCEPT !.transaction = Some("/")]).result)
C9_Witness ==
    /\ Accepted /\ In.transaction = Some("") /\ Out.transaction = Placeholder

\* The op the claims expect after processing of an op handed in as o.
DefaultedOp(o) == IF o = None THEN Some("default") ELSE o

\* C10: in an accepted transaction event the op of the trace context and of
\* every span is present after processing: "default" where it was absent, the
\* value handed in where it was present.
C10_OpDefault ==
    Accepted
        => /\ TraceOf(Out).op # None
           /\ TraceOf(Out).op = DefaultedOp(TraceOf(In).op)
           /\ \A i \in 1..SpanCount(In) :
                /\ Out.spans[1][i][1].op # None
                /\ Out.spans[1][i][1].op = DefaultedOp(In.spans[1][i][1].op)
\* No op on the trace context and the first span, an op on the second span.
C10_Witness ==
    /\ Accepted /\ TraceOf(In).op = None /\ TraceOf(Out).op = Some("default")
    /\ SpanCount(In) = 2
    /\ In.spans[1][1][1].op = None /\ Out.spans[1][1][1].op = Some("default")
    /\ In.spans[1][2][1].op = Some("op") /\ Out.spans[1][2][1].op = Some("op")

\* The reason the claims expect process_span to reject a span with, in the
\* order of its checks; None for a span that is accepted.
SpanReason(sp) ==
    IF sp.timestamp = None THEN Some("span is missing timestamp")
    ELSE IF sp.start_timestamp = None THEN Some("span is missing start_timestamp")
    ELSE IF sp.timestamp[1] < sp.start_timestamp[1]
    THEN Some("end timestamp in span is smaller than start timestamp")
    ELSE IF sp.trace_id = None THEN Some("span is missing trace_id")
    ELSE IF sp.span_id = None THEN Some("span is missing span_id")
    ELSE None
\* C11: process_span accepts a visited span (the walk goes on into its
\* timestamps) exactly when both timestamps are present and ordered and both
\* identifiers are present; otherwise the event is rejected with the reason
\* of the span's first failing check (timestamps, then trace_id, then
\* span_id; "span is missing timestamp" when both timestamps are absent) and
\* the span is left as it was.
C11_SpanRules ==
    Done => \A i \in 1..SpanCount(In) :
        Invoked("process_span", Some(i - 1), "")
            => LET sp == In.spans[1][i][1]
               IN /\ SpanPasses(sp)
                        <=> Invoked("process_timestamp", Some(i - 1), "timestamp")
                  /\ ~SpanPasses(sp)
                        => /\ Rejected(SpanReason(sp)[1])
                           /\ Out.spans[1][i] = In.spans[1][i]
                  /\ (sp.timestamp = None /\ sp.start_timestamp = None)
                        => Rejected("span is missing timestamp")
\* A visited span without timestamps and without identifiers.
C11_Witness ==
    /\ Done /\ SpanCount(In) = 1 /\ In.spans[1][1] # None
    /\ Invoked("process_span", Some(0), "")
    /\ In.spans[1][1][1].timestamp = None /\ In.spans[1][1][1].start_timestamp = None
    /\ In.spans[1][1][1].trace_id = None /\ In.spans[1][1][1].span_id = None
    /\ Rejected("span is missing timestamp")

TimestampReasons == {"timestamp hard-required for transaction events",
                     "start_timestamp hard-required for transaction events",
                     "end timestamp is smaller than start timestamp"}
TraceReasons == {"trace context hard-required for transaction events",
                 "context at event.contexts.trace must be of type trace.",
                 "trace context is missing trace_id",
                 "trace context is missing span_id"}
\* The first span (1-based) that fails a per-span rule, 0 if there is none.
FirstFailingSpan(e) ==
    IF \E i \in 1..SpanCount(e) : ~SpanPasses(e.spans[1][i][1])
    THEN CHOOSE i \in 1..SpanCount(e) :
            /\ ~SpanPasses(e.spans[1][i][1])
            /\ \A j \in 1..(i - 1) : SpanPasses(e.spans[1][j][1])
    ELSE 0

\* C12: process_event is fail-fast in the order timestamps, trace context,
\* span-list null check, descent.  The result is the reason of the first
\* failing check; nothing a later check does (the stored drift, the trace
\* op default, the child walk) has happened when an earlier one failed; the
\* child walk is invoked exactly when the three event-level checks passed;
\* and a rejection by process_span is the event's result and the last hook
\* the walk invoked.
C12_FailFastOrder ==
    (Done /\ In.ty = Some("transaction"))
        => /\ ~PassesTimestamps(In)
                => /\ \E r \in TimestampReasons : Rejected(r)
                   /\ processor.client_clock_drift = None
                   /\ Out.contexts = In.contexts
           /\ (PassesTimestamps(In) /\ ~PassesTraceContext(In))
                => /\ \E r \in TraceReasons : Rejected(r)
                   /\ Out.contexts = In.contexts
           /\ (PassesTimestamps(In) /\ PassesTraceContext(In) /\ HasNullSpan(In))
                => Rejected("spans must be valid in transaction event")
           /\ WalkInvoked
                <=> (PassesTimestamps(In) /\ PassesTraceContext(In) /\ ~HasNullSpan(In))
           /\ ~WalkInvoked
                => (Out.timestamp = In.timestamp /\ Out.start_timestamp = In.start_timestamp
                    /\ Out.spans = In.spans)
           /\ WalkInvoked
                => LET k == FirstFailingSpan(In)
                   IN IF k = 0 THEN result = Some(Ok)
                      ELSE /\ Rejected(SpanReason(In.spans[1][k][1])[1])
                           /\ calls[Len(calls)] = Call("process_span", Some(k - 1), "")
                           /\ \A j \in k..SpanCount(In) : Out.spans[1][j] = In.spans[1][j]
\* The first of two spans is rejected; the second, also invalid, is not visited.
C12_Witness ==
    /\ Done /\ WalkInvoked /\ SpanCount(In) = 2
    /\ FirstFailingSpan(In) = 1 /\ ~SpanPasses(In.spans[1][2][1])
    /\ In.spans[1][1][1].timestamp = None /\ In.spans[1][2][1].trace_id = None
    /\ Rejected("span is missing timestamp")
    /\ ~Invoked("process_span", Some(1), "")

\* ---------------------------------------------------- conversion claims
\* from_value has been called.
Converted == value # None
\* from_value returned rather than panicked.
Returned == parsed[1] = "ok"
Tgt == unwrap(target)
Given == unwrap(value)
Typed == parsed[2]
Boxed == unwrap(boxed)
\* The Value variants a target type converts.
Matches(T, v) ==
    CASE T[1] = "String" -> variant(v) = "String"
      [] T[1] = "bool" -> variant(v) = "Bool"
      [] T[1] = "u64" -> variant(v) = "U64"
      [] T[1] = "i64" -> variant(v) = "I64"
      [] T[1] = "f64" -> variant(v) = "F64"
      [] T[1] = "Uuid" -> variant(v) = "String"
      [] T[1] = "DateTime" -> variant(v) \in {"String", "U64", "I64", "F64"}
      [] T[1] = "Vec" -> variant(v) = "Array"
      [] T[1] = "Map" -> variant(v) = "Object"
      [] T[1] = "Value" -> TRUE
\* after is before with exactly one error appended.
OneMoreError(before, after) ==
    /\ after.flags = before.flags
    /\ Len(after.errors) = Len(before.errors) + 1
    /\ SubSeq(after.errors, 1, Len(before.errors)) = before.errors

\* C13: for every typed target (string, boolean, the numbers, uuid, array,
\* mapping, date-time) from_value of an explicit null or of no value returns
\* an absent value with the input's meta, no error added.
C13_NullIsAbsent ==
    (Converted /\ Tgt # <<"Value">> /\ Given.value \in {None, Some(Value_Null)})
        => (Returned /\ Typed = Annotated(None, Given.meta))
C13_Witness ==
    /\ Converted
    /\ Tgt = <<"String">>
    /\ Given = Annotated(Some(Value_Null), ErrorMeta)
    /\ Returned
    /\ Typed.meta = ErrorMeta

\* C14: for every target type, a non-null Value of a variant the type does
\* not convert gives an absent value whose meta is the input's meta with
\* exactly one error appended.
C14_MismatchAddsOneError ==
    (Converted /\ Given.value # None /\ Given.value # Some(Value_Null)
        /\ ~Matches(Tgt, unwrap(Given.value)))
        => (Returned /\ Typed.value = None /\ OneMoreError(Given.meta, Typed.meta))
C14_Witness ==
    /\ Converted
    /\ Tgt = <<"bool">>
    /\ Given = Annotated(Some(Value_String("a")), ErrorMeta)
    /\ Returned
    /\ Typed = Annotated(None, MetaOf(<<"earlier error", "expected a boolean">>, {}))

\* C15: an array of N elements parses into a present vector of N slots in
\* order, an object into a mapping of the same keys; each slot is the
\* from_value of its child and the container's meta gains no error.
C15_ElementWise ==
    /\ (Converted /\ Tgt[1] = "Vec" /\ Given.value # None
            /\ variant(unwrap(Given.value)) = "Array")
        => /\ Returned
           /\ Typed.value # None
           /\ Typed.meta = Given.meta
           /\ Len(unwrap(Typed.value)) = Len(payload(unwrap(Given.value)))
           /\ \A i \in 1..Len(payload(unwrap(Given.value))) :
                Some(unwrap(Typed.value)[i])
                    \in from_value(Tgt[2], payload(unwrap(Given.value))[i])
    /\ (Converted /\ Tgt[1] = "Map" /\ Given.value # None
            /\ variant(unwrap(Given.value)) = "Object")
        => /\ Returned
           /\ Typed.value # None
           /\ Typed.meta = Given.meta
           /\ DOMAIN unwrap(Typed.value) = DOMAIN payload(unwrap(Given.value))
           /\ \A k \in DOMAIN payload(unwrap(Given.value)) :
                Some(unwrap(Typed.value)[k])
                    \in from_value(Tgt[2], payload(unwrap(Given.value))[k])

\* The epoch a numeric Value states, in sub-second units.
EpochUnits(v) == IF variant(v) = "F64" THEN payload(v) ELSE payload(v) * SubSec
NumericEpoch(v) == variant(v) \in {"U64", "I64", "F64"}

\* C16: a numeric epoch parsed into a date-time gives the instant that many
\* seconds from the epoch: an integer n gives n whole seconds and no
\* sub-second part, a float f the instant equal to f, negative floats and
\* unsigned integers above the signed maximum included.
C16_EpochToInstant ==
    (Converted /\ Tgt = <<"DateTime">> /\ Given.value # None
        /\ NumericEpoch(unwrap(Given.value)) /\ Returned)
        => /\ Typed.value # None
           /\ datetime_to_timestamp(unwrap(Typed.value)) = EpochUnits(unwrap(Given.value))
           /\ variant(unwrap(Given.value)) # "F64" => unwrap(Typed.value).subsec_micros = 0

\* C17: for a value that parsed without a new error, to_value gives back
\* the same meta and the same numeric or temporal content, and parsing and
\* boxing that result again changes nothing.
C17_RoundTrip ==
    (boxed # None /\ Given.value # None /\ Typed.meta = Given.meta)
        => /\ Boxed.meta = Given.meta
           /\ (Tgt \in {<<"u64">>, <<"i64">>, <<"f64">>} /\ Typed.value # None)
                => Boxed.value = Given.value
           /\ (Tgt = <<"DateTime">> /\ NumericEpoch(unwrap(Given.value)))
                => (Boxed.value # None
                    /\ EpochUnits(unwrap(Boxed.value)) = EpochUnits(unwrap(Given.value)))
           /\ \A again \in from_value(Tgt, Boxed) :
                again # None /\ to_value(Tgt, unwrap(again)) = Boxed

RECURSIVE Sparse(_)
\* At every depth, every child entry carries errors or flags of its own.
Sparse(tree) ==
    \A k \in DOMAIN tree.children :
        ~Meta_is_empty(tree.children[k].meta) /\ Sparse(tree.children[k])
\* The keys of the children whose own meta is not empty.
DiagnosedItems(items) ==
    {idx_to_string(i) : i \in {j \in 1..Len(items) : ~Meta_is_empty(items[j].meta)}}
DiagnosedEntries(items) == {k \in DOMAIN items : ~Meta_is_empty(items[k].meta)}
\* The children of the typed value, as a sequence or as a mapping.
IsSequence == Typed.value # None
    /\ (Tgt[1] = "Vec" \/ (Tgt[1] = "Value" /\ variant(unwrap(Typed.value)) = "Array"))
IsMapping == Typed.value # None
    /\ (Tgt[1] = "Map" \/ (Tgt[1] = "Value" /\ variant(unwrap(Typed.value)) = "Object"))
ChildrenOf(v) == IF Tgt[1] = "Value" THEN payload(unwrap(v.value)) ELSE unwrap(v.value)

WrittenKeys(items) ==
    SelectSeq(KeyOrder, LAMBDA k :
        k \in DOMAIN items /\ (items[k].value # None \/ ~Meta_is_empty(items[k].meta)))
C19_Entries ==
    (written # None /\ Tgt[1] = "Map" /\ Typed.value # None)
        => /\ unwrap(written)[1] = "map"
           /\ Len(unwrap(written)[2]) = Len(WrittenKeys(unwrap(Typed.value)))
           /\ \A i \in 1..Len(WrittenKeys(unwrap(Typed.value))) :
                /\ unwrap(written)[2][i][1] = WrittenKeys(unwrap(Typed.value))[i]
                /\ unwrap(written)[2][i][2] =
                     serialize_payload(Tgt[2],
                         unwrap(Typed.value)[WrittenKeys(unwrap(Typed.value))[i]])

\* C19: serialize_payload of a mapping writes an entry exactly when its
\* value is present or its meta is not empty, with its key and in the
\* mapping's order, and leaves the typed tree as it was.
C19_SkipOnEmpty ==
    /\ []C19_Entries
    /\ [][written' # written => parsed' = parsed]_vars
C19_Witness ==
    /\ written # None
    /\ Tgt = <<"Map", <<"String">>>>
    /\ Typed.value # None
    /\ DOMAIN unwrap(Typed.value) = {"a", "b"}
    /\ skip_serialization(unwrap(Typed.value)["a"])
    /\ unwrap(written) = <<"map", <<<<"b", <<"some", "a">>>>>>>>

\* C20: from_value never panics: an epoch outside the representable range
\* gives an absent value and an error, and the siblings are still parsed.
C20_NeverPanics ==
    Converted
        => /\ Returned
           /\ (Tgt = <<"DateTime">> /\ Given.value # None
                /\ NumericEpoch(unwrap(Given.value))
                /\ timestamp_opt(f64_as_i64(EpochUnits(unwrap(Given.value))), 0) = None)
                => (Typed.value = None /\ OneMoreError(Given.meta, Typed.meta))

\* ------------------------------------------------ processing-state claims
\* C21: the attrs of a child state are the attrs supplied when it was
\* entered or, when none were supplied, the attrs of its parent state.
C21_AttrsInherited ==
    \A i \in 2..Len(states) :
        attrs(states[i]) =
            IF states[i].attrs # None THEN unwrap(states[i].attrs)
            ELSE attrs(states[unwrap(states[i].parent)])

\* The innermost segment a state was entered under.
Innermost(i) == entered[i][Len(entered[i])]
C30_Paths ==
    /\ Len(entered) = Len(states)
    /\ \A i \in 1..Len(states) :
        /\ Path_iter(states, i) = entered[i]
        /\ i = 1 => (Path_key(states[i]) = None /\ Path_index(states[i]) = None)
        /\ (i > 1 /\ Innermost(i)[1] = "Index")
              => (Path_index(states[i]) = Some(Innermost(i)[2]) /\ Path_key(states[i]) = None)
        /\ (i > 1 /\ Innermost(i)[1] # "Index")
              => (Path_key(states[i]) = Some(Innermost(i)[2]) /\ Path_index(states[i]) = None)
    /\ walked[1] = "vec"
        => /\ Len(states) = walked[3] + walked[4]
           /\ \A j \in 0..(walked[4] - 1) :
                states[walked[3] + j + 1] = enter_index(walked[2], j, None)

\* C30: for a state reached by k enter calls Path::iter yields the k
\* segments in the order they were entered; Path::key and Path::index
\* report the innermost segment only, a key or an index and never both;
\* entering a child leaves every existing state as it was; the array walk
\* enters element i under index i, in order.
C30_PathOrder ==
    /\ []C30_Paths
    /\ [][/\ Len(states') >= Len(states)
          /\ \A i \in 1..Len(states) : states'[i] = states[i]]_vars
\* A field was entered under its key and an array of two walked below it.
C30_Witness ==
    /\ walked = <<"vec", 2, 2, 2>>
    /\ entered[4] = <<PathItem_StaticKey("exception"), PathItem_Index(1)>>
    /\ Path_iter(states, 4) = entered[4]
    /\ Path_index(states[4]) = Some(1)

\* --------------------------------------------------------- metrics claims
\* A with_client call has been made; what it did and what was configured.
Emitted == emitted[1] = "call"
Emission == emitted[3]
ConfiguredThen == emitted[4]

\* C22: as long as set_client has never been called, with_client does not
\* invoke its callback and returns the default.
C22_NoopUnconfigured ==
    (Emitted /\ ~ever_set) => Emission = [invoked |-> None, returned |-> "default"]
\* with_client was called after a disable that no set_client preceded.
C22_Witness ==
    /\ Emitted
    /\ ~ever_set
    /\ ConfiguredThen = <<"disabled">>
    /\ Emission.invoked = None

\* C23: with_client follows the most recent configuration call on every
\* thread: after set_client(c) the callback is invoked with c, after
\* disable() it is not invoked and the default is returned.
C23_FollowsConfiguration ==
    Emitted
        => /\ ConfiguredThen[1] = "set"
                => Emission = [invoked |-> Some(ConfiguredThen[2]), returned |-> "callback"]
           /\ ConfiguredThen[1] = "disabled"
                => Emission = [invoked |-> None, returned |-> "default"]

\* ------------------------------------------------ further validator claims
TimestampInvoked == \E i \in 1..Len(calls) : calls[i].hook = "process_timestamp"

\* C24: in a walk entered through process_event, process_timestamp never
\* runs without a drift: it never panics, and it is invoked only for
\* transaction events whose timestamps passed, when the drift is stored.
C24_DriftBeforeTimestamps ==
    Done => /\ result # Some(Panic)
            /\ TimestampInvoked
                => /\ In.ty = Some("transaction")
                   /\ PassesTimestamps(In)
                   /\ processor.client_clock_drift # None
\* An accepted event whose own timestamps and whose span's were corrected.
C24_Witness ==
    /\ Accepted /\ SpanCount(In) = 1
    /\ Invoked("process_timestamp", None, "timestamp")
    /\ Invoked("process_timestamp", Some(0), "start_timestamp")
    /\ processor.client_clock_drift = Some(Drift)

\* The duration of the event as handed in.
Duration == In.timestamp[1] - In.start_timestamp[1]

\* C25: for an accepted transaction event and a processor without sent_at,
\* the timestamp after processing is now and the start timestamp is now
\* minus the duration handed in, whenever that is representable.
C25_LandsOnNow ==
    (Accepted /\ processor.sent_at = None /\ Representable(processor.now - Duration))
        => /\ Out.timestamp = Some(processor.now)
           /\ Out.start_timestamp = Some(processor.now - Duration)
\* An event a second long, sent a second after now.
C25_Witness ==
    /\ Accepted /\ processor.sent_at = None
    /\ Duration = 1 /\ In.timestamp = Some(TsMax) /\ processor.now = TsMax - 1
    /\ Out.timestamp = Some(TsMax - 1) /\ Out.start_timestamp = Some(TsMax - 2)

\* C26: in every accepted transaction event the timestamp after processing
\* is still not before the start timestamp, for the event and for every
\* span, also when the subtraction overflows for one of the two only.
C26_OrderPreserved ==
    Accepted
        => /\ Out.timestamp[1] >= Out.start_timestamp[1]
           /\ \A i \in 1..SpanCount(In) :
                Out.spans[1][i][1].timestamp[1] >= Out.spans[1][i][1].start_timestamp[1]

\* The event was rejected by one of the event-level checks.
RejectedAtEventLevel ==
    \E r \in TimestampReasons \cup TraceReasons \cup {"spans must be valid in transaction event"} :
        Rejected(r)

\* C27: when an event-level check rejects a transaction event, no timestamp
\* and no span has been modified; only the name (defaulted) can differ, and
\* the op of the trace context (defaulted) when the span-list check rejected.
C27_RejectionFrame ==
    (Done /\ In.ty = Some("transaction") /\ RejectedAtEventLevel)
        => /\ Out.ty = In.ty
           /\ Out.timestamp = In.timestamp
           /\ Out.start_timestamp = In.start_timestamp
           /\ Out.spans = In.spans
           /\ Out.transaction = (IF Unnamed(In) THEN Placeholder ELSE In.transaction)
           /\ ~Rejected("spans must be valid in transaction event")
                => Out.contexts = In.contexts
           /\ Rejected("spans must be valid in transaction event")
                => Out.contexts = Some([In.contexts[1] EXCEPT !["trace"] =
                        Some([TraceOf(In) EXCEPT !.op = DefaultedOp(TraceOf(In).op)])])
\* A nameless event without op is rejected for a null span.
C27_Witness ==
    /\ Done /\ In.ty = Some("transaction")
    /\ Rejected("spans must be valid in transaction event")
    /\ In.transaction = None /\ Out.transaction = Placeholder
    /\ TraceOf(In).op = None /\ TraceOf(Out).op = Some("default")
    /\ Out.timestamp = In.timestamp

OwnDrift(a, b) == b = a \/ b = Corrected(a)
C29_OwnDrift ==
    Done
        => /\ ~(In.ty = Some("transaction") /\ PassesTimestamps(In))
                => (Out.timestamp = In.timestamp /\ Out.start_timestamp = In.start_timestamp
                    /\ Out.spans = In.spans /\ processor.client_clock_drift = stale)
           /\ (In.ty = Some("transaction") /\ PassesTimestamps(In))
                => /\ processor.client_clock_drift = Some(Drift)
                   /\ OwnDrift(In.timestamp, Out.timestamp)
                   /\ OwnDrift(In.start_timestamp, Out.start_timestamp)
                   /\ \A i \in 1..SpanCount(In) :
                        /\ OwnDrift(In.spans[1][i][1].timestamp, Out.spans[1][i][1].timestamp)
                        /\ OwnDrift(In.spans[1][i][1].start_timestamp,
                                    Out.spans[1][i][1].start_timestamp)
           /\ Accepted
                => /\ Out.timestamp = Corrected(In.timestamp)
                   /\ Out.start_timestamp = Corrected(In.start_timestamp)

\* C29: when one processor is handed a sequence of events, the drift
\* subtracted from the timestamps of an event is the drift computed from
\* that event, never one left by an earlier event; events that are not
\* transactions or are rejected before the walk keep their timestamps; now
\* and sent_at keep their construction-time values.
C29_DriftPerEvent ==
    /\ []C29_OwnDrift
    /\ [][processor'.now = processor.now /\ processor'.sent_at = processor.sent_at]_vars
\* A later event is corrected by its own drift while the processor held
\* another one from an earlier event.
C29_Witness ==
    /\ handled = 2 /\ Accepted
    /\ stale # None /\ stale # Some(Drift)
    /\ Drift # 0
    /\ Out.timestamp = Shifted(In.timestamp)
====
